---- MODULE Spec2Model ----
(***************************************************************************)
(* Model of report-generator.js: the k6 JSON log is read, parsed line by   *)
(* line into metric definitions, samples and timeseries, statistics are    *)
(* computed, the HTML report is rendered and written.                      *)
(*                                                                         *)
(* Conventions of the model:                                               *)
(*  - a line of the file is a record: text says whether the line is blank, *)
(*    not JSON, or JSON; the other fields are the parsed JSON value;       *)
(*  - data.data.time is a number of milliseconds, 0 when the field is      *)
(*    absent (falsy); timeInSeconds is kept in milliseconds and            *)
(*    Math.floor(timeInSeconds) is time \div MsPerSecond;                  *)
(*  - tags.status "" stands for an absent status (undefined is falsy and   *)
(*    differs from '200' exactly as "" does);                              *)
(*  - a JS number that may be undefined is a record [def, num, den]:       *)
(*    the rational num/den when def, undefined otherwise.                  *)
(***************************************************************************)
EXTENDS Integers, Sequences, FiniteSets, TLC

VARIABLES pc, lines, idx, metrics, samples, sampleKeys, timeseriesData,
          successfulResponses, testStartTime, testEndTime, warnings,
          html, written, exitCode, error,
          server

vars == <<pc, lines, idx, metrics, samples, sampleKeys, timeseriesData,
          successfulResponses, testStartTime, testEndTime, warnings,
          html, written, exitCode, error,
          server>>

\* the state of report-generator.js; server.js runs as another process
reportVars == <<pc, lines, idx, metrics, samples, sampleKeys, timeseriesData,
                successfulResponses, testStartTime, testEndTime, warnings,
                html, written, exitCode, error>>

----------------------------------------------------------------------------
(* Bounds of the model *)

MaxLines == 3

MaxN == 11

\* requests the mock server has in flight at once
MaxRequests == 2

MaxReq == 4

(* Program constants *)

MsPerSecond == 1000

BucketWidth == 100

KiloBytes == 1024

MsPerMinute == 60000

----------------------------------------------------------------------------
(* Numbers: rationals and undefined *)

Num(n, d) == [def |-> TRUE, num |-> n, den |-> d]

Int2Num(n) == Num(n, 1)

Undefined == [def |-> FALSE, num |-> 0, den |-> 1]

NumLess(a, b) == a.def /\ b.def /\ a.num * b.den < b.num * a.den

NumLeq(a, b) == a.def /\ b.def /\ a.num * b.den <= b.num * a.den

NumEq(a, b) == a.def /\ b.def /\ a.num * b.den = b.num * a.den

\* a * b of JS: NaN (undefined here) when either operand is undefined
NumMul(a, b) ==
    IF a.def /\ b.def THEN Num(a.num * b.num, a.den * b.den) ELSE Undefined

\* Number.prototype.toFixed(2) of a non-negative rational, in hundredths
ToFixed2(n, d) == (2 * 100 * n + d) \div (2 * d)

----------------------------------------------------------------------------
(* Lines of the log file *)

Line(text, type, hasData, metric, mtype, contains, time, value, hasTags, status) ==
    [text |-> text, type |-> type, hasData |-> hasData, metric |-> metric,
     mtype |-> mtype, contains |-> contains, time |-> time, value |-> value,
     hasTags |-> hasTags, status |-> status]

BlankLine == Line("blank", "", FALSE, "", "", "", 0, 0, FALSE, "")

GarbageLine == Line("garbage", "", FALSE, "", "", "", 0, 0, FALSE, "")

\* {"type":"Other"}: valid JSON with no recognised type
OtherLine == Line("json", "Other", FALSE, "", "", "", 0, 0, FALSE, "")

\* {"type":"Metric","data":{"name":n,"type":t,"contains":c}}
MetricLine(n, t, c) == Line("json", "Metric", TRUE, n, t, c, 0, 0, FALSE, "")

\* {"type":"Metric"}: no data object
MetricNoData == Line("json", "Metric", FALSE, "", "", "", 0, 0, FALSE, "")

\* {"type":"Point","metric":m,"data":{"time":t,"value":v,"tags":{"status":s}}}
PointLine(m, t, v, s) == Line("json", "Point", TRUE, m, "", "", t, v, TRUE, s)

\* {"type":"Point","metric":m,"data":{"time":t,"value":v}}: no tags object
PointNoTags(m, t, v) == Line("json", "Point", TRUE, m, "", "", t, v, FALSE, "")

\* {"type":"Point","metric":m}: no data object
PointNoData(m) == Line("json", "Point", FALSE, m, "", "", 0, 0, FALSE, "")

----------------------------------------------------------------------------
(* Helpers of the report generator *)

getMetricUnit(metricName) ==
    CASE metricName \in {"http_req_duration", "http_req_waiting",
                         "http_req_connecting", "http_req_tls_handshaking",
                         "http_req_sending", "http_req_receiving",
                         "iteration_duration"} -> "time"
      [] metricName \in {"http_reqs", "iterations", "vus", "vus_max", "checks"} -> "count"
      [] metricName \in {"data_sent", "data_received"} -> "data"
      [] OTHER -> ""

\* formatDuration(ms): every comparison with undefined is false, so undefined
\* falls to the last branch and (undefined / 60000).toFixed(2) is "NaN"
formatDuration(ms) ==
    IF ~ms.def THEN [text |-> "NaN", hundredths |-> 0, unit |-> "m"]
    ELSE IF NumLess(ms, Int2Num(1))
         THEN [text |-> "number", hundredths |-> ToFixed2(ms.num * 1000, ms.den), unit |-> "us"]
    ELSE IF NumLess(ms, Int2Num(1000))
         THEN [text |-> "number", hundredths |-> ToFixed2(ms.num, ms.den), unit |-> "ms"]
    ELSE IF NumLess(ms, Int2Num(MsPerMinute))
         THEN [text |-> "number", hundredths |-> ToFixed2(ms.num, ms.den * 1000), unit |-> "s"]
    ELSE [text |-> "number", hundredths |-> ToFixed2(ms.num, ms.den * MsPerMinute), unit |-> "m"]

\* formatBytes(bytes), for bytes below 1024^4 (sizes has four entries):
\* Math.log(undefined) is NaN, so the number is NaN and sizes[NaN] is
\* undefined; 0 < bytes < 1 gives i = -1 and sizes[-1] undefined
formatBytes(bytes) ==
    IF ~bytes.def THEN [text |-> "NaN", hundredths |-> 0, unit |-> "undefined"]
    ELSE IF NumEq(bytes, Int2Num(0))
         THEN [text |-> "number", hundredths |-> 0, unit |-> "Bytes"]
    ELSE IF NumLess(bytes, Int2Num(1))
         THEN [text |-> "number", hundredths |-> ToFixed2(bytes.num * KiloBytes, bytes.den),
               unit |-> "undefined"]
    ELSE IF NumLess(bytes, Int2Num(KiloBytes))
         THEN [text |-> "number", hundredths |-> ToFixed2(bytes.num, bytes.den), unit |-> "Bytes"]
    ELSE IF NumLess(bytes, Int2Num(KiloBytes * KiloBytes))
         THEN [text |-> "number", hundredths |-> ToFixed2(bytes.num, bytes.den * KiloBytes),
               unit |-> "KB"]
    ELSE IF NumLess(bytes, Int2Num(KiloBytes * KiloBytes * KiloBytes))
         THEN [text |-> "number",
               hundredths |-> ToFixed2(bytes.num, bytes.den * KiloBytes * KiloBytes),
               unit |-> "MB"]
    ELSE [text |-> "number",
          hundredths |-> ToFixed2(bytes.num, bytes.den * KiloBytes * KiloBytes * KiloBytes),
          unit |-> "GB"]

----------------------------------------------------------------------------
(* processK6Output: the pass over the lines *)

EmptyTimeseries ==
    [timestamps |-> <<>>, vus |-> <<>>, responseTime |-> <<>>, requests |-> <<>>,
     dataTransfer |-> <<>>, statusCodes |-> <<>>,
     responseTimeDistribution |-> [buckets |-> <<>>, counts |-> <<>>]]

\* the locals of processK6Output before the pass
EmptyAcc ==
    [metrics |-> <<>>, samples |-> <<>>, sampleKeys |-> <<>>, ts |-> EmptyTimeseries,
     succ |-> <<>>, tStart |-> <<>>, tEnd |-> <<>>, warnings |-> 0]

\* JSON.parse(line) succeeds
JSONParses(line) == line.text = "json"

\* TrackStatusCodes without the test of the status tag
TrackStatusCodes_AnyRequest(statusCodes, line) ==
    IF line.metric = "http_reqs"
    THEN [s \in DOMAIN statusCodes \cup {line.status} |->
            IF s = line.status
            THEN (IF s \in DOMAIN statusCodes THEN statusCodes[s] ELSE 0) + 1
            ELSE statusCodes[s]]
    ELSE statusCodes

\* new state of timeseriesData.statusCodes after one Point with a time
TrackStatusCodes(statusCodes, line) ==
    IF line.metric = "http_reqs" /\ line.hasTags /\ line.status # ""
    THEN [s \in DOMAIN statusCodes \cup {line.status} |->
            IF s = line.status
            THEN (IF s \in DOMAIN statusCodes THEN statusCodes[s] ELSE 0) + 1
            ELSE statusCodes[s]]
    ELSE statusCodes

\* the successful-response test of the timeseries collector
IsSuccess(line) == line.hasTags /\ line.status = "200"

\* the if / else-if chain collecting the chart series
CollectTimeseries(acc, line) ==
    CASE line.metric = "vus" ->
           [acc EXCEPT !.ts.timestamps = Append(@, line.time),
                       !.ts.vus = Append(@, line.value)]
      [] line.metric = "http_req_duration" ->
           IF IsSuccess(line)
           THEN [acc EXCEPT !.succ = Append(@, [timestamp |-> line.time,
                                                 value |-> line.value])]
           ELSE acc
      [] line.metric = "http_reqs" ->
           [acc EXCEPT !.ts.requests = Append(@, [timestamp |-> line.time,
                                                  value |-> line.value,
                                                  status |-> line.status])]
      [] line.metric = "data_received" ->
           IF IsSuccess(line)
           THEN [acc EXCEPT !.ts.dataTransfer = Append(@, [timestamp |-> line.time,
                                                            value |-> line.value])]
           ELSE acc
      [] OTHER -> acc

\* testStartTime / testEndTime: <<>> is null
UpdateTestTimes(acc, line) ==
    [acc EXCEPT
       !.tStart = IF Len(@) = 0 \/ line.time < @[1] THEN <<line.time>> ELSE @,
       !.tEnd = IF Len(@) = 0 \/ line.time > @[1] THEN <<line.time>> ELSE @]

\* if (data.type === 'Point' && data.data.time) { ... }
ProcessPointTime(acc, line) ==
    IF line.type = "Point" /\ line.time # 0
    THEN LET a1 == UpdateTestTimes(acc, line)
             a2 == [a1 EXCEPT !.ts.statusCodes = TrackStatusCodes(@, line)]
         IN CollectTimeseries(a2, line)
    ELSE acc

\* if (data.type === 'Metric') metrics[data.data.name] = {...}
DefineMetric(ms, line) ==
    IF line.type = "Metric"
    THEN [m \in DOMAIN ms \cup {line.metric} |->
            IF m = line.metric
            THEN [type |-> line.mtype, contains |-> line.contains,
                  stats |-> <<>>, unit |-> getMetricUnit(line.metric)]
            ELSE ms[m]]
    ELSE ms

\* the early return taken for the Points of every metric
DurationSkipped_AnyMetric(line) == ~line.hasTags \/ line.status # "200"

\* the early return of the aggregator: a duration Point that is not a 200
DurationSkipped(line) ==
    line.metric = "http_req_duration" /\ (~line.hasTags \/ line.status # "200")

\* if (data.type === 'Point') { ...; samples[metricName].push(value) }
AddSample(acc, line) ==
    IF line.type = "Point" /\ ~DurationSkipped(line)
    THEN [acc EXCEPT
            !.samples = [m \in DOMAIN @ \cup {line.metric} |->
                           IF m = line.metric
                           THEN Append(IF m \in DOMAIN @ THEN @[m] ELSE <<>>, line.value)
                           ELSE @[m]],
            !.sampleKeys = IF line.metric \in DOMAIN acc.samples THEN @
                           ELSE Append(@, line.metric)]
    ELSE acc

\* the statements of the try block raise a TypeError: data.data is read of a
\* Point (line 78) or of a Metric (line 122) that has no data object
BodyThrows(line) == line.type \in {"Point", "Metric"} /\ ~line.hasData

\* a catch that drops what the pass has accumulated
CatchLine_Discard(acc) == [EmptyAcc EXCEPT !.warnings = acc.warnings + 1]

\* catch (e) { console.error(...) }
CatchLine(acc) == [acc EXCEPT !.warnings = @ + 1]

\* the body of the try block for a parsed line
TryBody(acc, line) ==
    IF BodyThrows(line) THEN CatchLine(acc)
    ELSE LET a1 == ProcessPointTime(acc, line)
             a2 == [a1 EXCEPT !.metrics = DefineMetric(@, line)]
         IN AddSample(a2, line)

\* the callback of lines.forEach
ProcessLine(acc, line) ==
    IF line.text = "blank" THEN acc
    ELSE IF ~JSONParses(line) THEN CatchLine(acc)
    ELSE TryBody(acc, line)

\* the locals of processK6Output as one record
CurrentAcc ==
    [metrics |-> metrics, samples |-> samples, sampleKeys |-> sampleKeys,
     ts |-> timeseriesData, succ |-> successfulResponses,
     tStart |-> testStartTime, tEnd |-> testEndTime, warnings |-> warnings]

----------------------------------------------------------------------------
(* processK6Output: statistics and the latency histogram *)

\* the array left in arrival order: the sort forgotten
SortAscending_Unsorted(s) == s

\* values.sort((a, b) => a - b): the k-th of the result is the value that
\* has fewer than k values below it and at least k values not above it
SortAscending(s) ==
    [k \in 1..Len(s) |->
        CHOOSE v \in {s[i] : i \in DOMAIN s} :
            /\ Cardinality({i \in DOMAIN s : s[i] < v}) < k
            /\ k <= Cardinality({i \in DOMAIN s : s[i] <= v})]

RECURSIVE Reduce(_)
\* values.reduce((a, b) => a + b, 0)
Reduce(s) == IF Len(s) = 0 THEN 0 ELSE Head(s) + Reduce(Tail(s))

\* values[i] of a JS array: undefined out of range
At(values, i) ==
    IF i >= 0 /\ i < Len(values) THEN Int2Num(values[i + 1]) ELSE Undefined

\* the rank ceil(len * 0.9) of the textbook nearest-rank method, less one
P90Index_Rank(len) == (len * 9 + 9) \div 10 - 1

\* Math.floor(len * 0.9), Math.floor(len * 0.95), Math.floor(len * 0.99)
P90Index(len) == (len * 9) \div 10

P95Index(len) == (len * 95) \div 100

P99Index(len) == (len * 99) \div 100

\* the median without the split on even lengths
Median_Upper(values, len) == At(values, len \div 2)

\* the median of the sorted values
Median(values, len) ==
    IF len % 2 = 0
    THEN Num(values[len \div 2] + values[len \div 2 + 1], 2)
    ELSE At(values, len \div 2)

\* the stats object of a sorted, non-empty array
StatsOf(values) ==
    LET len == Len(values)
    IN [min |-> At(values, 0),
        max |-> At(values, len - 1),
        avg |-> Num(Reduce(values), len),
        med |-> Median(values, len),
        p90 |-> At(values, P90Index(len)),
        p95 |-> At(values, P95Index(len)),
        p99 |-> At(values, P99Index(len)),
        count |-> Int2Num(len)]

RECURSIVE StatsLoop(_, _, _, _)
\* Object.keys(samples).forEach: sorts each array in place and sets the stats;
\* metrics[metricName] undefined raises a TypeError that ends the loop
StatsLoop(ms, ss, keys, i) ==
    IF i > Len(keys) THEN [metrics |-> ms, samples |-> ss, thrown |-> FALSE]
    ELSE LET k == keys[i]
             sorted == SortAscending(ss[k])
             ss1 == [ss EXCEPT ![k] = sorted]
         IN IF Len(sorted) > 0
            THEN IF k \in DOMAIN ms
                 THEN StatsLoop([ms EXCEPT ![k].stats = StatsOf(sorted)], ss1, keys, i + 1)
                 ELSE [metrics |-> ms, samples |-> ss1, thrown |-> TRUE]
            ELSE StatsLoop(ms, ss1, keys, i + 1)

\* Math.floor(point.value / 100) * 100
BucketOf(value) == (value \div BucketWidth) * BucketWidth

RECURSIVE SetToAscending(_)
\* the integer keys of an object, which JS enumerates in ascending order
SetToAscending(S) ==
    IF S = {} THEN <<>>
    ELSE LET m == CHOOSE x \in S : \A y \in S : x <= y
         IN <<m>> \o SetToAscending(S \ {m})

\* responseTimeDistribution: {buckets, counts}
Distribution(points) ==
    LET keys == SetToAscending({BucketOf(points[i].value) : i \in DOMAIN points})
    IN [buckets |-> keys,
        counts |-> [j \in DOMAIN keys |->
                      Cardinality({i \in DOMAIN points : BucketOf(points[i].value) = keys[j]})]]

\* testEndTime - testStartTime: null - null is 0
TestDuration(tStart, tEnd) ==
    IF Len(tStart) = 0 \/ Len(tEnd) = 0 THEN 0 ELSE tEnd[1] - tStart[1]

----------------------------------------------------------------------------
(* generateHTML *)

\* stats[stat] of a stats object: undefined when the object is {}
Stat(stats, stat) == IF stat \in DOMAIN stats THEN stats[stat] ELSE Undefined

\* timeseriesData.statusCodes['200'] || 0
Count200(statusCodes) == IF "200" \in DOMAIN statusCodes THEN statusCodes["200"] ELSE 0

\* metrics.http_reqs.stats.count.toLocaleString() of an undefined count
SummaryThrows(ms) ==
    "http_reqs" \in DOMAIN ms /\ ~Stat(ms["http_reqs"].stats, "count").def

\* metrics.http_reqs.stats of an undefined metrics.http_reqs, in a data row
DataRowThrows(ms) ==
    /\ \E m \in DOMAIN ms : ms[m].unit = "data"
    /\ "http_reqs" \notin DOMAIN ms

RECURSIVE RpsLoop(_, _, _, _, _)
\* the forEach of the requests-per-second script
RpsLoop(timestamps, i, currentSecond, requestCount, rpsData) ==
    IF i > Len(timestamps) THEN rpsData
    ELSE IF Len(currentSecond) = 1 /\ timestamps[i] \div MsPerSecond = currentSecond[1]
         THEN RpsLoop(timestamps, i + 1, currentSecond, requestCount + 1, rpsData)
         ELSE RpsLoop(timestamps, i + 1, <<timestamps[i] \div MsPerSecond>>, 1,
                      Append(rpsData, [timestamp |-> currentSecond[1],
                                       rps |-> requestCount]))

\* which series of timeseriesData the requests-per-second script reads
RpsSource(ts) == ts.timestamps

\* rpsData of the script; currentSecond starts as Math.floor(series[0])
RpsData(ts) ==
    LET series == RpsSource(ts)
    IN IF Len(series) = 0 THEN <<>>
       ELSE RpsLoop(series, 1, <<series[1] \div MsPerSecond>>, 0, <<>>)

StatColumns == {"min", "max", "avg", "med", "p90", "p95", "p99"}

\* the summary lines that depend on http_reqs
RequestLines(ms, statusCodes) ==
    IF "http_reqs" \in DOMAIN ms /\ ~SummaryThrows(ms)
    THEN LET count == ms["http_reqs"].stats["count"].num
         IN <<[total |-> count,
               successful |-> Count200(statusCodes),
               failed |-> count - Count200(statusCodes),
               rate |-> ToFixed2(Count200(statusCodes) * 100, count)]>>
    ELSE <<>>

\* the pairs <<p, length>>, length up to 120, at which the product of doubles
\* (p / 100) * length falls just below the whole number p * length / 100
RoundsBelow == {<<58, 50>>, <<70, 90>>, <<29, 100>>, <<57, 100>>, <<58, 100>>}

\* Math.floor((p / 100) * sortedResponseTimes.length)
PercentileIndex(p, length) ==
    IF <<p, length>> \in RoundsBelow
    THEN (p * length) \div 100 - 1
    ELSE (p * length) \div 100

\* percentiles: Array.from({length: 100}, (_, i) => i + 1)
percentiles == 1..100

\* percentileValues of the percentile chart, percentileValues[p - 1] at p
PercentileValues(ts) ==
    LET sortedResponseTimes ==
            SortAscending([i \in DOMAIN ts.responseTime |-> ts.responseTime[i].value])
    IN [p \in percentiles |->
            At(sortedResponseTimes, PercentileIndex(p, Len(sortedResponseTimes)))]

\* the document returned by generateHTML
Document(ms, duration, ts) ==
    [duration |-> formatDuration(Int2Num(duration)),
     requestLines |-> RequestLines(ms, ts.statusCodes),
     averageLine |-> IF "http_req_duration" \in DOMAIN ms
                     THEN <<formatDuration(Stat(ms["http_req_duration"].stats, "avg"))>>
                     ELSE <<>>,
     timeRows |-> [m \in {x \in DOMAIN ms : ms[x].unit = "time"} |->
                     [c \in StatColumns |-> formatDuration(Stat(ms[m].stats, c))]],
     dataRows |-> [m \in {x \in DOMAIN ms : ms[x].unit = "data"} |->
                     [min |-> formatBytes(Stat(ms[m].stats, "min")),
                      max |-> formatBytes(Stat(ms[m].stats, "max")),
                      avg |-> formatBytes(Stat(ms[m].stats, "avg")),
                      total |-> formatBytes(
                          NumMul(Stat(ms[m].stats, "avg"),
                                 IF "http_reqs" \in DOMAIN ms
                                 THEN Stat(ms["http_reqs"].stats, "count")
                                 ELSE Undefined))]],
     rpsData |-> RpsData(ts),
     percentileValues |-> PercentileValues(ts),
     statusCodes |-> ts.statusCodes]

----------------------------------------------------------------------------
(* The log files the pipeline is run on *)

\* lines of short logs, every kind of line the parser distinguishes
Alphabet ==
    {GarbageLine, PointNoData("vus"),
     MetricLine("http_reqs", "counter", "default"),
     MetricLine("http_req_duration", "trend", "time"),
     MetricLine("data_received", "counter", "data"),
     PointLine("http_reqs", 1100, 1, "200"),
     PointNoTags("http_reqs", 1400, 1),
     PointLine("http_reqs", 0, 1, "500"),
     PointLine("http_req_duration", 1200, 120, "200"),
     PointLine("http_req_duration", 1500, 30, "500"),
     PointNoTags("http_req_duration", 1600, 250),
     PointLine("data_received", 1300, 2048, "200"),
     PointNoTags("vus", 1000, 5)}

ShortLogs == UNION {[1..n -> Alphabet] : n \in 0..MaxLines}

\* a sample log: the metric's definition, then n Points whose values are
\* 10 * (((i * a + b) % m) + 1); with mix = 1 every third Point is followed by
\* a Point of status 500, with mix = 2 by a Point without tags
SamplePoints(metric, n, a, b, m, mix) ==
    LET value(i) == 10 * (((i * a + b) % m) + 1)
        sample(i) == PointLine(metric, 1000 + 100 * i, value(i), "200")
        extra(i) == IF mix = 1 THEN PointLine(metric, 1000 + 100 * i, 5, "500")
                    ELSE PointNoTags(metric, 1000 + 100 * i, 5)
        both == [j \in 1..(2 * n) |->
                   IF j % 2 = 1
                   THEN [keep |-> TRUE, line |-> sample((j + 1) \div 2)]
                   ELSE [keep |-> mix # 0 /\ (j \div 2) % 3 = 0,
                         line |-> extra(j \div 2)]]
        kept == SelectSeq(both, LAMBDA e : e.keep)
    IN [j \in DOMAIN kept |-> kept[j].line]

SampleLog(metric, n, a, b, m, mix) ==
    <<MetricLine(metric, "trend", "time")>> \o SamplePoints(metric, n, a, b, m, mix)

SampleLogs ==
    {SampleLog(metric, n, a, b, m, mix) :
        metric \in {"http_req_duration", "http_req_waiting"},
        n \in 1..MaxN, a \in {1, 3, 7}, b \in {0, 4}, m \in {3, 10}, mix \in 0..2}

\* long logs of n distinct values, a permutation of 10, 20, ..., 10 * n
LongLogs ==
    {SampleLog("http_req_duration", n, a, 0, n, mix) :
        n \in {20, 101}, a \in {1, 7}, mix \in {0, 1}}

\* s with x put in after its first k elements
InsertAt(s, k, x) == SubSeq(s, 1, k) \o <<x>> \o SubSeq(s, k + 1, Len(s))

\* a definition and 5 valid samples, with one more line put anywhere among them
InterleavedLogs ==
    {InsertAt(SampleLog(metric, 5, 3, 0, 10, 0), k, x) :
        metric \in {"http_req_duration", "http_req_waiting"},
        k \in 0..6,
        x \in {BlankLine, GarbageLine, OtherLine, PointNoData("http_req_duration"),
               MetricNoData}}

RECURSIVE RequestPoints(_, _, _)
\* http_reqs Points at time t and then at the increments incs, each preceded
\* by a vus Point of the same time when withVus
RequestPoints(t, incs, withVus) ==
    (IF withVus THEN <<PointNoTags("vus", t, 1)>> ELSE <<>>)
    \o <<PointLine("http_reqs", t, 1, "200")>>
    \o (IF Len(incs) = 0 THEN <<>>
        ELSE RequestPoints(t + Head(incs), Tail(incs), withVus))

\* time-ordered logs of request events, the first at 1.1 s
RequestLogs ==
    {<<MetricLine("http_reqs", "counter", "default"),
       MetricLine("vus", "gauge", "default")>> \o RequestPoints(1100, incs, withVus) :
        incs \in UNION {[1..k -> {300, 500, 1100}] : k \in 0..(MaxReq - 1)},
        withVus \in BOOLEAN}

\* lines of short logs of one metric: a second definition of another kind, a
\* successful Point without a time, Points of different latency buckets
VariantAlphabet ==
    {MetricLine("http_req_duration", "trend", "time"),
     MetricLine("http_req_duration", "gauge", "default"),
     PointLine("http_req_duration", 0, 250, "200"),
     PointLine("http_req_duration", 1200, 120, "200"),
     PointLine("http_req_duration", 1500, 130, "500")}

VariantLogs == UNION {[1..n -> VariantAlphabet] : n \in 0..MaxLines}

InputLogs ==
    ShortLogs \cup SampleLogs \cup LongLogs \cup InterleavedLogs \cup RequestLogs
        \cup VariantLogs

----------------------------------------------------------------------------
(* The run: the main try block *)

\* req.headers.authorization: a string, or undefined when the header is absent
NoHeader == [def |-> FALSE, value |-> ""]

Header(s) == [def |-> TRUE, value |-> s]

\* const validToken
validToken == "Bearer your-secret-token-123"

\* a request slot: phase is "idle" before the request arrives, "delayed" while
\* the timer of the authentication middleware is pending, "slow" while the
\* timer of /slow-endpoint is pending, "done" once the response is sent;
\* nextCalls counts the calls of next() by the authentication middleware,
\* timerFired says its timer has fired, handler is what ran after it
IdleRequest ==
    [phase |-> "idle", method |-> "", path |-> "", auth |-> NoHeader,
     nextCalls |-> 0, timerFired |-> FALSE, handler |-> "none", status |-> 0]

Init ==
    /\ lines \in InputLogs
    /\ pc = "main"
    /\ idx = 0
    /\ metrics = <<>>
    /\ samples = <<>>
    /\ sampleKeys = <<>>
    /\ timeseriesData = EmptyTimeseries
    /\ successfulResponses = <<>>
    /\ testStartTime = <<>>
    /\ testEndTime = <<>>
    /\ warnings = 0
    /\ html = <<>>
    /\ written = FALSE
    /\ exitCode = "running"
    /\ error = "none"
    /\ server = [i \in 1..MaxRequests |-> IdleRequest]

\* fs.readFileSync(filePath, 'utf8').split('\n'): the read succeeds or throws
ReadInput ==
    /\ pc = "main"
    /\ \E ok \in BOOLEAN :
         IF ok THEN pc' = "parse" /\ idx' = 1 /\ error' = error
         ELSE pc' = "catch" /\ idx' = idx /\ error' = "read"
    /\ UNCHANGED <<server, lines, metrics, samples, sampleKeys, timeseriesData,
                   successfulResponses, testStartTime, testEndTime, warnings,
                   html, written, exitCode>>

\* one call of the forEach callback
ParseLine ==
    /\ pc = "parse"
    /\ idx <= Len(lines)
    /\ LET acc == ProcessLine(CurrentAcc, lines[idx])
       IN /\ metrics' = acc.metrics
          /\ samples' = acc.samples
          /\ sampleKeys' = acc.sampleKeys
          /\ timeseriesData' = acc.ts
          /\ successfulResponses' = acc.succ
          /\ testStartTime' = acc.tStart
          /\ testEndTime' = acc.tEnd
          /\ warnings' = acc.warnings
    /\ idx' = idx + 1
    /\ UNCHANGED <<server, pc, lines, html, written, exitCode, error>>

\* the rest of processK6Output, after the pass
ComputeStatistics ==
    /\ pc = "parse"
    /\ idx > Len(lines)
    /\ LET r == StatsLoop(metrics, samples, sampleKeys, 1)
       IN /\ metrics' = r.metrics
          /\ samples' = r.samples
          /\ IF r.thrown
             THEN /\ pc' = "catch"
                  /\ error' = "stats"
                  /\ timeseriesData' =
                       [timeseriesData EXCEPT !.responseTime = successfulResponses]
             ELSE /\ pc' = "render"
                  /\ error' = error
                  /\ timeseriesData' =
                       [timeseriesData EXCEPT
                          !.responseTime = successfulResponses,
                          !.responseTimeDistribution = Distribution(successfulResponses)]
    /\ UNCHANGED <<server, lines, idx, sampleKeys, successfulResponses, testStartTime,
                   testEndTime, warnings, html, written, exitCode>>

\* const html = generateHTML(data)
GenerateHTML ==
    /\ pc = "render"
    /\ IF SummaryThrows(metrics) \/ DataRowThrows(metrics)
       THEN pc' = "catch" /\ error' = "render" /\ html' = html
       ELSE /\ pc' = "write"
            /\ error' = error
            /\ html' = <<Document(metrics, TestDuration(testStartTime, testEndTime),
                                  timeseriesData)>>
    /\ UNCHANGED <<server, lines, idx, metrics, samples, sampleKeys, timeseriesData,
                   successfulResponses, testStartTime, testEndTime, warnings,
                   written, exitCode>>

\* fs.writeFileSync('load-test-report.html', html): succeeds or throws;
\* after it the script ends and the process exits normally
WriteReport ==
    /\ pc = "write"
    /\ \E ok \in BOOLEAN :
         IF ok THEN pc' = "exit" /\ written' = TRUE /\ exitCode' = "0" /\ error' = error
         ELSE pc' = "catch" /\ written' = written /\ exitCode' = exitCode /\ error' = "write"
    /\ UNCHANGED <<server, lines, idx, metrics, samples, sampleKeys, timeseriesData,
                   successfulResponses, testStartTime, testEndTime, warnings, html>>

\* catch (error) { console.error(...); process.exit(1) }
CatchError ==
    /\ pc = "catch"
    /\ pc' = "exit"
    /\ exitCode' = "1"
    /\ UNCHANGED <<server, lines, idx, metrics, samples, sampleKeys, timeseriesData,
                   successfulResponses, testStartTime, testEndTime, warnings,
                   html, written, error>>

Next ==
    \/ ReadInput
    \/ ParseLine
    \/ ComputeStatistics
    \/ GenerateHTML
    \/ WriteReport
    \/ CatchError

Spec == Init /\ [][Next]_vars

----------------------------------------------------------------------------
(* server.js: the mock server *)

\* !authHeader: undefined and the empty string are falsy
Falsy(authHeader) == ~authHeader.def \/ authHeader.value = ""

\* the middleware with the token check moved before the /health exemption
Middleware_TokenFirst(path, authHeader) ==
    IF Falsy(authHeader) \/ authHeader.value # validToken THEN "401"
    ELSE IF path = "/health" THEN "next"
    ELSE "delay"

\* the authentication middleware: what it does with a request
Middleware(path, authHeader) ==
    IF path = "/health" THEN "next"
    ELSE IF Falsy(authHeader) \/ authHeader.value # validToken THEN "401"
    ELSE "delay"

\* server.get(path, ...) matches GET requests, a trailing slash allowed
Matches(r, route) ==
    r.method = "GET" /\ (r.path = route \/ r.path = route \o "/")

\* what next() reaches: the three routes in order, then the default
\* middlewares and the router, which answer from db.json
Route(r, routerStatus) ==
    IF Matches(r, "/health")
    THEN [r EXCEPT !.phase = "done", !.handler = "health", !.status = 200]
    ELSE IF Matches(r, "/slow-endpoint")
    THEN [r EXCEPT !.phase = "slow", !.handler = "slow"]
    ELSE IF Matches(r, "/error-endpoint")
    THEN [r EXCEPT !.phase = "done", !.handler = "error", !.status = 500]
    ELSE [r EXCEPT !.phase = "done", !.handler = "router", !.status = routerStatus]

\* the requests the clients send
Methods == {"GET", "POST"}

Paths == {"/health", "/health/", "/users", "/slow-endpoint", "/error-endpoint"}

AuthHeaders ==
    {NoHeader, Header(""), Header("Bearer wrong-token"), Header(validToken)}

\* the statuses the json-server router answers with
RouterStatuses == {200, 404}

\* the process after server.listen: no request has arrived
ServerInit ==
    /\ server = [i \in 1..MaxRequests |-> IdleRequest]
    /\ pc = "main"
    /\ lines = <<>>
    /\ idx = 0
    /\ metrics = <<>>
    /\ samples = <<>>
    /\ sampleKeys = <<>>
    /\ timeseriesData = EmptyTimeseries
    /\ successfulResponses = <<>>
    /\ testStartTime = <<>>
    /\ testEndTime = <<>>
    /\ warnings = 0
    /\ html = <<>>
    /\ written = FALSE
    /\ exitCode = "running"
    /\ error = "none"

\* a request arrives and the authentication middleware runs; next() runs the
\* rest of the chain in the same turn
Receive(i) ==
    /\ server[i].phase = "idle"
    /\ \E method \in Methods, path \in Paths, authHeader \in AuthHeaders,
          routerStatus \in RouterStatuses :
         LET r == [IdleRequest EXCEPT !.method = method, !.path = path,
                                      !.auth = authHeader]
             m == Middleware(path, authHeader)
         IN server' = [server EXCEPT ![i] =
                IF m = "next" THEN Route([r EXCEPT !.nextCalls = 1], routerStatus)
                ELSE IF m = "401" THEN [r EXCEPT !.phase = "done", !.status = 401]
                ELSE [r EXCEPT !.phase = "delayed"]]
    /\ UNCHANGED reportVars

\* the timer of setTimeout(next, ...) fires
DelayTimerFires(i) ==
    /\ server[i].phase = "delayed"
    /\ \E routerStatus \in RouterStatuses :
         server' = [server EXCEPT ![i] =
            Route([server[i] EXCEPT !.nextCalls = @ + 1, !.timerFired = TRUE],
                  routerStatus)]
    /\ UNCHANGED reportVars

\* the timer of /slow-endpoint fires
SlowTimerFires(i) ==
    /\ server[i].phase = "slow"
    /\ server' = [server EXCEPT ![i] = [@ EXCEPT !.phase = "done", !.status = 200]]
    /\ UNCHANGED reportVars

ServerNext ==
    \E i \in 1..MaxRequests :
        \/ Receive(i)
        \/ DelayTimerFires(i)
        \/ SlowTimerFires(i)

SpecServer == ServerInit /\ [][ServerNext]_vars

----------------------------------------------------------------------------
(* What the claims are stated over *)

\* processK6Output has returned: the statistics are computed
Aggregated == pc \in {"render", "write"} \/ error \in {"render", "write"} \/ written

\* the lines the pass has gone through
Seen == SubSeq(lines, 1, IF idx - 1 < Len(lines) THEN idx - 1 ELSE Len(lines))

\* a Point record with a data object
IsPoint(l) == l.text = "json" /\ l.type = "Point" /\ l.hasData

\* the positions of the Points of metric m among the lines ls
PointsOf(ls, m) == {i \in DOMAIN ls : IsPoint(ls[i]) /\ ls[i].metric = m}

\* the metric names of the lines ls
NamesIn(ls) == {ls[i].metric : i \in {j \in DOMAIN ls : ls[j].text = "json" /\ ls[j].hasData}}

RECURSIVE SumOfCounts(_)
\* the sum of the values of a mapping from keys to counts
SumOfCounts(f) ==
    IF DOMAIN f = {} THEN 0
    ELSE LET k == CHOOSE x \in DOMAIN f : TRUE
         IN f[k] + SumOfCounts([x \in DOMAIN f \ {k} |-> f[x]])

\* the http_reqs Points that carry a time and a status tag
TaggedRequests(ls) ==
    {i \in PointsOf(ls, "http_reqs") :
        ls[i].time # 0 /\ ls[i].hasTags /\ ls[i].status # ""}

\* the summary has a total request count
HasRequestCount ==
    /\ Aggregated
    /\ "http_reqs" \in DOMAIN metrics
    /\ "count" \in DOMAIN metrics["http_reqs"].stats

TotalRequests == metrics["http_reqs"].stats["count"].num

----------------------------------------------------------------------------
(* C1 *)

\* C1, as stated: after processK6Output the total request count of the summary
\* equals the sum of the status-code histogram, also when some http_reqs
\* Points carry no status tag or no time.
C1_TotalEqualsStatusSum ==
    HasRequestCount => TotalRequests = SumOfCounts(timeseriesData.statusCodes)

\* C1, amended: the total request count is the number of http_reqs Points,
\* while the status-code histogram sums to the number of http_reqs Points that
\* carry both a time and a status tag; the two agree exactly when every
\* http_reqs Point carries both.
C1_StatusSumCountsTaggedRequests ==
    HasRequestCount =>
        /\ TotalRequests = Cardinality(PointsOf(lines, "http_reqs"))
        /\ SumOfCounts(timeseriesData.statusCodes) = Cardinality(TaggedRequests(lines))
        /\ SumOfCounts(timeseriesData.statusCodes) <= TotalRequests
        /\ (SumOfCounts(timeseriesData.statusCodes) = TotalRequests
              <=> TaggedRequests(lines) = PointsOf(lines, "http_reqs"))

\* C1 witness: a summary whose total counts a tagged and an untagged request
C1_Witness ==
    /\ HasRequestCount
    /\ TaggedRequests(lines) # {}
    /\ TaggedRequests(lines) # PointsOf(lines, "http_reqs")
    /\ written

----------------------------------------------------------------------------
(* C2 *)

\* the metrics that have statistics
WithStats == {m \in DOMAIN metrics : DOMAIN metrics[m].stats # {}}

\* C2: the statistics of every metric with at least one aggregated sample
\* satisfy min <= med <= p90 <= p95 <= p99 <= max.
C2_StatisticsOrdered ==
    Aggregated =>
        \A m \in WithStats :
            LET st == metrics[m].stats
            IN /\ st.count.num >= 1
               /\ NumLeq(st.min, st.med)
               /\ NumLeq(st.med, st.p90)
               /\ NumLeq(st.p90, st.p95)
               /\ NumLeq(st.p95, st.p99)
               /\ NumLeq(st.p99, st.max)

\* C2 witness: statistics of 101 samples that are all strictly apart
C2_Witness ==
    /\ Aggregated
    /\ \E m \in WithStats :
          LET st == metrics[m].stats
          IN /\ NumLess(st.min, st.med)
             /\ NumLess(st.med, st.p90)
             /\ NumLess(st.p90, st.p95)
             /\ NumLess(st.p95, st.p99)
             /\ NumLess(st.p99, st.max)

----------------------------------------------------------------------------
(* C3 *)

\* a line that is not valid JSON, or whose processing raises an error
BadLine(l) ==
    \/ l.text = "garbage"
    \/ l.text = "json" /\ l.type \in {"Point", "Metric"} /\ ~l.hasData

\* the lines ls with the bad lines removed
WithoutBad(ls) == SelectSeq(ls, LAMBDA l : ~BadLine(l))

RECURSIVE PassOver(_, _)
\* the state of the pass after the lines ls, from the state acc
PassOver(acc, ls) ==
    IF Len(ls) = 0 THEN acc
    ELSE ProcessLine(PassOver(acc, SubSeq(ls, 1, Len(ls) - 1)), ls[Len(ls)])

\* the number of bad lines among ls
BadCount(ls) == Cardinality({i \in DOMAIN ls : BadLine(ls[i])})

\* C3: a line that is not valid JSON, or that raises an error while it is
\* processed, is skipped without aborting the pass: at every point of the pass
\* the samples, metric definitions and timeseries are those of the same lines
\* with the bad lines removed, one warning is logged per bad line, the pass
\* goes on to the last line, and the statistics computed after it count the
\* samples of the good lines only. (A blank line is no line of the log: it is
\* passed over with no warning. A log without bad lines is its own cleaned
\* log, so the comparison is made on the logs that have one.)
C3_BadLinesSkipped ==
    /\ pc = "parse" => warnings = BadCount(Seen)
    /\ pc = "parse" /\ BadCount(Seen) > 0 =>
          LET clean == PassOver(EmptyAcc, WithoutBad(Seen))
          IN /\ metrics = clean.metrics
             /\ samples = clean.samples
             /\ timeseriesData = clean.ts
             /\ successfulResponses = clean.succ
             /\ clean.warnings = 0
    /\ error \in {"stats", "render", "write"} \/ pc \in {"render", "write"} \/ written =>
          /\ idx = Len(lines) + 1
          /\ warnings = BadCount(lines)
    /\ Aggregated /\ BadCount(lines) > 0 =>
          \A m \in WithStats :
              metrics[m].stats.count.num =
                  Len(PassOver(EmptyAcc, WithoutBad(lines)).samples[m])

\* C3 witness: 1 garbage line among 5 valid samples, statistics of count 5
\* and one warning
C3_Witness ==
    /\ Aggregated
    /\ Len(lines) = 7
    /\ \E i \in 2..6 : lines[i].text = "garbage"
    /\ Cardinality({i \in DOMAIN lines : IsPoint(lines[i])}) = 5
    /\ \E m \in WithStats : metrics[m].stats.count.num = 5
    /\ warnings = 1

----------------------------------------------------------------------------
(* C6 *)

\* the filtering policy of the aggregator, as the claim states it
PassesFilter(l) ==
    l.metric = "http_req_duration" => (l.hasTags /\ l.status = "200")

\* the values of the Points of metric m among ls that pass the filter, in order
FilteredValues(ls, m) ==
    LET kept == SelectSeq(ls, LAMBDA l : IsPoint(l) /\ l.metric = m /\ PassesFilter(l))
    IN [i \in DOMAIN kept |-> kept[i].value]

SamplesOfMetric(m) == IF m \in DOMAIN samples THEN samples[m] ELSE <<>>

\* C6: an http_req_duration Point is added to the samples if and only if its
\* tag status is "200"; every Point of every other metric is added whatever its
\* tags; so the count of each metric's statistics is the number of its Points
\* that pass this filter (and a metric none of whose Points pass has no
\* statistics).
C6_FilteringPolicy ==
    /\ pc = "parse" =>
          /\ DOMAIN samples \subseteq NamesIn(Seen)
          /\ \A m \in NamesIn(Seen) : SamplesOfMetric(m) = FilteredValues(Seen, m)
    /\ Aggregated =>
          \A m \in DOMAIN metrics :
              IF Len(FilteredValues(lines, m)) = 0
              THEN DOMAIN metrics[m].stats = {}
              ELSE /\ "count" \in DOMAIN metrics[m].stats
                   /\ metrics[m].stats.count.num = Len(FilteredValues(lines, m))

\* C6 witness: the pass is over a log with a duration Point of status 200
\* (kept), duration Points that are not (left out) and a Point of
\* another metric that has no status 200 (kept)
C6_Witness ==
    /\ pc = "parse"
    /\ idx > Len(lines)
    /\ \E i, j, k \in DOMAIN lines :
          /\ IsPoint(lines[i]) /\ lines[i].metric = "http_req_duration"
          /\ lines[i].status = "200"
          /\ IsPoint(lines[j]) /\ lines[j].metric = "http_req_duration"
          /\ lines[j].status # "200"
          /\ IsPoint(lines[k]) /\ lines[k].metric # "http_req_duration"
          /\ lines[k].status # "200"
          /\ Len(samples["http_req_duration"]) = 1
          /\ Len(samples[lines[k].metric]) = 1

----------------------------------------------------------------------------
(* C7 *)

IsAscending(v) == \A i \in 1..(Len(v) - 1) : v[i] <= v[i + 1]

\* v and w hold the same values the same number of times
SameValues(v, w) ==
    /\ Len(v) = Len(w)
    /\ \A i \in DOMAIN v :
          Cardinality({j \in DOMAIN v : v[j] = v[i]})
              = Cardinality({j \in DOMAIN w : w[j] = v[i]})

RECURSIVE Total(_, _)
\* v[1] + ... + v[n]
Total(v, n) == IF n = 0 THEN 0 ELSE v[n] + Total(v, n - 1)

\* the statistics st are those the claim gives for the ascending values v,
\* v[1..N] here being v[0..N-1] of the claim
NearestRank(st, v) ==
    LET N == Len(v)
        i90 == (N * 90) \div 100
        i95 == (N * 95) \div 100
        i99 == (N * 99) \div 100
    IN /\ N >= 1
       /\ st.count = Int2Num(N)
       /\ st.min = Int2Num(v[1])
       /\ st.max = Int2Num(v[N])
       /\ st.avg.def /\ st.avg.num * N = Total(v, N) * st.avg.den
       /\ {i90, i95, i99} \subseteq 0..(N - 1)
       /\ st.p90 = Int2Num(v[i90 + 1])
       /\ st.p95 = Int2Num(v[i95 + 1])
       /\ st.p99 = Int2Num(v[i99 + 1])
       /\ IF N % 2 = 1
          THEN st.med = Int2Num(v[(N - 1) \div 2 + 1])
          ELSE st.med.def /\ 2 * st.med.num = (v[N \div 2] + v[N \div 2 + 1]) * st.med.den

\* C7: for every metric with N >= 1 aggregated samples, sorted ascending as
\* v[0..N-1]: min = v[0], max = v[N-1], avg = sum / N, count = N, each of
\* p90, p95, p99 is v[floor(N * p)], an index within 0..N-1, and the median is
\* v[floor(N / 2)] for odd N, the mean of v[N/2 - 1] and v[N/2] for even N.
C7_NearestRankStatistics ==
    Aggregated =>
        \A m \in WithStats :
            /\ IsAscending(samples[m])
            /\ SameValues(samples[m], FilteredValues(lines, m))
            /\ NearestRank(metrics[m].stats, samples[m])

\* C7 witness: statistics of 20 distinct samples, the median between the two
\* middle ones and p90 below p95
C7_Witness ==
    /\ Aggregated
    /\ \E m \in WithStats :
          /\ Len(samples[m]) = 20
          /\ NumLess(Int2Num(samples[m][10]), metrics[m].stats.med)
          /\ NumLess(metrics[m].stats.med, Int2Num(samples[m][11]))
          /\ NumLess(metrics[m].stats.p90, metrics[m].stats.p95)

----------------------------------------------------------------------------
(* C8 *)

\* the http_req_duration samples of the log are exactly the 10 values
\* 10, 20, ..., 100, all of them tagged status 200
TenSamples ==
    /\ Cardinality(PointsOf(lines, "http_req_duration")) = 10
    /\ \A i \in PointsOf(lines, "http_req_duration") :
          lines[i].hasTags /\ lines[i].status = "200"
    /\ {lines[i].value : i \in PointsOf(lines, "http_req_duration")}
          = {10 * k : k \in 1..10}

TenSamplesAggregated ==
    /\ Aggregated
    /\ TenSamples
    /\ "http_req_duration" \in WithStats

\* C8, as stated: with the 10 samples 10, 20, ..., 100 of status 200 the p90
\* of http_req_duration is 90.
C8_P90Is90 ==
    TenSamplesAggregated => metrics["http_req_duration"].stats.p90 = Int2Num(90)

\* C8, amended: with the 10 samples 10, 20, ..., 100 of status 200 the p90 of
\* http_req_duration is 100, the value at the sorted index floor(10 * 0.9) = 9.
C8_P90Is100 ==
    TenSamplesAggregated => metrics["http_req_duration"].stats.p90 = Int2Num(100)

\* C8 witness: the report of such a log is written
C8_Witness == TenSamplesAggregated /\ written

----------------------------------------------------------------------------
(* C4 *)

\* the metrics defined by a Metric record that have no aggregated Point
WithoutData == {m \in DOMAIN metrics : m \notin DOMAIN samples}

\* every metric that has samples has a definition: the statistics loop ends
Defined == DOMAIN samples \subseteq DOMAIN metrics

\* a cell of the document that shows NaN
IsNaN(cell) == cell.text = "NaN"

\* some statistic of the document is formatted from an undefined value
ShowsNaN(doc) ==
    \/ \E i \in DOMAIN doc.averageLine : IsNaN(doc.averageLine[i])
    \/ \E m \in DOMAIN doc.timeRows : \E c \in StatColumns : IsNaN(doc.timeRows[m][c])
    \/ \E m \in DOMAIN doc.dataRows :
          \E c \in {"min", "max", "avg", "total"} : IsNaN(doc.dataRows[m][c])

\* C4, as stated: when a metric is defined but has no aggregated Point,
\* processing and rendering end without an exception and no undefined or NaN
\* statistic is formatted into the summary or the tables. (The logs are those
\* where no other failure is in play: every metric with samples is defined,
\* and http_reqs is defined when a data-size metric is.)
C4_NoDataIsExplicit ==
    (WithoutData # {} /\ Defined /\ ~DataRowThrows(metrics)) =>
        /\ error \notin {"stats", "render"}
        /\ \A i \in DOMAIN html : ~ShowsNaN(html[i])

----------------------------------------------------------------------------
(* C5 *)

\* the times of the request events of the log, in log order
RequestTimes ==
    LET reqs == SelectSeq(lines, LAMBDA l : IsPoint(l) /\ l.metric = "http_reqs"
                                             /\ l.time # 0)
    IN [i \in DOMAIN reqs |-> reqs[i].time]

\* the seconds, truncated, at which the request events t occurred
Seconds(t) == {t[i] \div MsPerSecond : i \in DOMAIN t}

\* one (second, count) bucket for each distinct second of t, in order
Buckets(t) ==
    LET secs == SetToAscending(Seconds(t))
    IN [j \in DOMAIN secs |->
          [timestamp |-> secs[j],
           rps |-> Cardinality({i \in DOMAIN t : t[i] \div MsPerSecond = secs[j]})]]

\* C5: for a time-ordered log the requests-per-second series of the report
\* holds one (second, count) bucket for each distinct truncated second of an
\* http_reqs event, in order, the count being the number of request events of
\* that second; the timestamps [1.1, 1.4, 1.9, 2.2] give [(1, 3), (2, 1)].
C5_RequestsPerSecondBuckets ==
    \A i \in DOMAIN html :
        IsAscending(RequestTimes) => html[i].rpsData = Buckets(RequestTimes)

----------------------------------------------------------------------------
(* C9 *)

\* C9: when http_reqs is absent from the aggregated metrics, generateHTML
\* still returns a document that leaves out the summary lines depending on it,
\* whatever other metrics are present, the data-size metrics included.
C9_RendersWithoutRequestCount ==
    (Aggregated /\ "http_reqs" \notin DOMAIN metrics) =>
        /\ error # "render"
        /\ pc \in {"write", "exit"} => Len(html) = 1
        /\ \A i \in DOMAIN html : html[i].requestLines = <<>>

----------------------------------------------------------------------------
(* C10 *)

\* every line of the log is well-formed JSON
WellFormed == \A i \in DOMAIN lines : lines[i].text = "json"

\* C10: the run ends either with the report written and a normal exit or with
\* exit code 1; a failure to read the input or to write the output leads to
\* exit code 1, and a log of well-formed JSON never leads to exit code 1
\* because of its content alone.
C10_ExitOneOnlyOnIOFailure ==
    /\ pc = "exit" => (exitCode = "0" /\ written) \/ (exitCode = "1" /\ ~written)
    /\ (pc = "exit" /\ error \in {"read", "write"}) => exitCode = "1"
    /\ (exitCode = "1" /\ WellFormed) => error \in {"read", "write"}

----------------------------------------------------------------------------
(* C11 *)

\* the positions of the Metric records of name m among the lines ls
MetricRecordsOf(ls, m) ==
    {i \in DOMAIN ls : ls[i].text = "json" /\ ls[i].type = "Metric"
                       /\ ls[i].hasData /\ ls[i].metric = m}

\* the metric names seen in a Metric record or in a Point record of ls
NamesSeen(ls) ==
    {ls[i].metric : i \in {j \in DOMAIN ls :
                             ls[j].text = "json" /\ ls[j].hasData
                             /\ ls[j].type \in {"Metric", "Point"}}}

\* the least position of a non-empty set of positions
First(S) == CHOOSE i \in S : \A j \in S : i <= j

\* C11: during and after the pass there is one metric definition for each
\* metric name seen so far, in a Metric record or in a Point record, its
\* kind and unit fields are those it was created with, whatever Metric record
\* of the same name comes later, and so every metric name that has samples
\* has a definition.
C11_OneDefinitionPerName ==
    pc = "parse" =>
        /\ \A m \in NamesSeen(Seen) : m \in DOMAIN metrics
        /\ \A m \in DOMAIN metrics :
              MetricRecordsOf(Seen, m) # {} =>
                  LET first == Seen[First(MetricRecordsOf(Seen, m))]
                  IN /\ metrics[m].type = first.mtype
                     /\ metrics[m].contains = first.contains
                     /\ metrics[m].unit = getMetricUnit(m)
        /\ DOMAIN samples \subseteq DOMAIN metrics

\* the second half of C11 alone: a later Metric record of the same name leaves
\* the kind and unit fields of the definition as they were
C11_DefinitionImmutable ==
    pc = "parse" =>
        \A m \in DOMAIN metrics :
            MetricRecordsOf(Seen, m) # {} =>
                LET first == Seen[First(MetricRecordsOf(Seen, m))]
                IN metrics[m].type = first.mtype /\ metrics[m].contains = first.contains

----------------------------------------------------------------------------
(* C12 *)

RECURSIVE SumOfSeq(_)
\* the sum of a sequence of counts
SumOfSeq(q) == IF Len(q) = 0 THEN 0 ELSE Head(q) + SumOfSeq(Tail(q))

\* the values of the points of the response-time scatter, in order
ScatterValues == [i \in DOMAIN timeseriesData.responseTime |->
                    timeseriesData.responseTime[i].value]

\* the count of the http_req_duration statistics, 0 when there are none
DurationCount ==
    IF "http_req_duration" \in WithStats
    THEN metrics["http_req_duration"].stats.count.num
    ELSE 0

\* C12: the response-time scatter is built with the filter of the aggregator:
\* after any log it holds one point per http_req_duration sample added to the
\* statistics, in arrival order, so its length is the count of the
\* http_req_duration statistics, and the counts of the latency histogram,
\* keyed by floor(value / 100) * 100, sum to that count.
C12_ScatterMatchesAggregator ==
    (Aggregated /\ "http_req_duration" \in DOMAIN metrics) =>
        /\ ScatterValues = FilteredValues(lines, "http_req_duration")
        /\ Len(timeseriesData.responseTime) = DurationCount
        /\ LET dist == timeseriesData.responseTimeDistribution
           IN /\ SumOfSeq(dist.counts) = DurationCount
              /\ \A j \in DOMAIN dist.buckets :
                    /\ dist.buckets[j] % BucketWidth = 0
                    /\ dist.counts[j] =
                         Cardinality({i \in DOMAIN ScatterValues :
                            ScatterValues[i] \div BucketWidth
                                = dist.buckets[j] \div BucketWidth})

\* what holds of the scatter instead: it has one point per http_req_duration
\* Point of status 200 that carries a time, in arrival order, and the
\* histogram counts sum to its length
C12_ScatterOfTimedSuccesses ==
    Aggregated =>
        /\ ScatterValues =
              LET kept == SelectSeq(lines, LAMBDA l :
                             IsPoint(l) /\ l.metric = "http_req_duration"
                             /\ l.hasTags /\ l.status = "200" /\ l.time # 0)
              IN [i \in DOMAIN kept |-> kept[i].value]
        /\ SumOfSeq(timeseriesData.responseTimeDistribution.counts)
              = Len(timeseriesData.responseTime)

----------------------------------------------------------------------------
(* C13 *)

\* the requests that have arrived
Arrived == {i \in 1..MaxRequests : server[i].phase # "idle"}

\* the Authorization header is the exact token
Authorized(r) == r.auth.def /\ r.auth.value = validToken

\* C13: a request whose path is not /health is answered 401 and never passed
\* on when its Authorization header is missing or is not the exact token;
\* when the header matches it is passed on exactly once, only after the delay
\* timer has fired, and never answered 401; a request to /health is passed on
\* on arrival with no token check; all this whatever the other requests do.
C13_AuthBeforeRoutes ==
    \A i \in Arrived :
        LET r == server[i]
        IN IF r.path = "/health"
           THEN r.nextCalls = 1 /\ ~r.timerFired /\ r.handler # "none"
                /\ r.status # 401
           ELSE IF ~Authorized(r)
           THEN r.nextCalls = 0 /\ r.handler = "none" /\ r.status = 401
                /\ r.phase = "done"
           ELSE /\ r.nextCalls = (IF r.timerFired THEN 1 ELSE 0)
                /\ (r.phase = "delayed") = ~r.timerFired
                /\ (r.handler = "none") = ~r.timerFired
                /\ r.status # 401

\* a request with a wrong token was rejected while a request with the token
\* passed the delay and reached a handler
C13_Witness ==
    \E i, j \in Arrived :
        /\ server[i].path # "/health" /\ ~Authorized(server[i])
        /\ server[i].auth.def /\ server[i].status = 401
        /\ server[j].path # "/health" /\ Authorized(server[j])
        /\ server[j].timerFired /\ server[j].phase = "done"

\* a request to /health without a header reached the health route
C13_HealthWitness ==
    \E i \in Arrived :
        /\ server[i].path = "/health" /\ ~server[i].auth.def
        /\ server[i].handler = "health" /\ server[i].status = 200

----------------------------------------------------------------------------
(* C14 *)

\* C14: in every rendered report with at least one successful latency
\* sample, each of the 100 points of the percentile curve is a defined
\* element of the sorted samples, its index within 0..N-1, and the curve is
\* non-decreasing in p.
C14_PercentileCurveDefined ==
    \A d \in DOMAIN html :
        LET N == Len(timeseriesData.responseTime)
            curve == html[d].percentileValues
        IN N >= 1 =>
            /\ \A p \in percentiles :
                  /\ PercentileIndex(p, N) \in 0..(N - 1)
                  /\ curve[p].def
                  /\ \E i \in 1..N : curve[p].num = ScatterValues[i]
            /\ \A p \in 1..99 : NumLeq(curve[p], curve[p + 1])

\* what holds of the curve instead: its points below p = 100 are defined and
\* non-decreasing, and the point at p = 100 is undefined
C14_CurveBelowHundred ==
    \A d \in DOMAIN html :
        LET N == Len(timeseriesData.responseTime)
            curve == html[d].percentileValues
        IN N >= 1 =>
            /\ \A p \in 1..99 : PercentileIndex(p, N) \in 0..(N - 1) /\ curve[p].def
            /\ \A p \in 1..98 : NumLeq(curve[p], curve[p + 1])
            /\ ~curve[100].def

====
